---- MODULE Spec2Model ----
(***************************************************************************)
(* State-machine model of PeriodTracker (src/main.cpp): the cycle ledger,  *)
(* the undo/redo stacks and the reminder priority queue.                   *)
(*                                                                         *)
(* Dates are the strings the user types, written <<y, m, d>> when month    *)
(* and day have two digits ("2024-01-05") and <<y, m, d, <<mw, dw>>>> when *)
(* they are typed with mw and dw digits ("2024-1-5" is                     *)
(* <<2024, 1, 5, <<1, 1>>>>): get_time accepts both, and the program       *)
(* compares dates as strings.  Instants (sys_time) are 64-bit counts of   *)
(* nanoseconds since 1970-01-01, local time with a fixed UTC offset,       *)
(* written as whole hours and ticks of 8192 ns.  `stored` is cycles.csv:   *)
(* the rows loadData reads from it.                                        *)
(***************************************************************************)
EXTENDS Integers, Sequences, FiniteSets, Bags, TLC

VARIABLES cycles, undoStack, redoStack, reminders, stored, last

vars == <<cycles, undoStack, redoStack, reminders, stored, last>>

(* ------------------------------ bounds --------------------------------- *)
\* longest ledger an insert may extend
MaxCycles == 2
\* deepest undo stack an insert or delete may extend
MaxHist == 2
\* most reminders addManualReminder may add to
MaxReminders == 1

(* ------------------------------ inputs --------------------------------- *)
StartInputs == { <<2024, 1, 1>>, <<2024, 1, 29>>, <<2024, 13, 1>> }
EndInputs == { <<2024, 1, 5>>, <<2024, 2, 2>> }
TargetInputs == { <<2024, 1, 1>>, <<2024, 1, 29>>, <<2024, 2, 28>> }
ReminderDateInputs == { <<2020, 1, 1>>, <<2099, 1, 1>>, <<2024, 13, 1>> }
ReminderTextInputs == { "call doctor" }

(* --------------------------- date utilities ---------------------------- *)
\* the characters of a month or day field of w digits
FieldChars(n, w) ==
    IF w = 1 /\ n < 10 THEN <<n>> ELSE <<n \div 10, n % 10>>

\* the characters of a date string: the four-digit year as one item, '-'
\* as -1 (it sorts before every digit), the digits as themselves
Chars(d) ==
    LET w == IF Len(d) = 4 THEN d[4] ELSE <<2, 2>>
    IN  <<d[1], -1>> \o FieldChars(d[2], w[1]) \o <<-1>> \o FieldChars(d[3], w[2])

\* std::string operator<: the first differing character decides, and a
\* proper prefix is less; between two strings with two-digit month and day
\* that is the order of <<y, m, d>>
StrLess(a, b) ==
    IF Len(a) = 3 /\ Len(b) = 3
    THEN \/ a[1] < b[1]
         \/ a[1] = b[1] /\ a[2] < b[2]
         \/ a[1] = b[1] /\ a[2] = b[2] /\ a[3] < b[3]
    ELSE LET x == Chars(a)
             y == Chars(b)
         IN  \E k \in 1..(Len(x) + 1) :
                 /\ \A i \in 1..(k - 1) : i <= Len(y) /\ x[i] = y[i]
                 /\ \/ k = Len(x) + 1 /\ k <= Len(y)
                    \/ k <= Len(x) /\ k <= Len(y) /\ x[k] < y[k]

\* C++ integer division by b > 0: the quotient rounded toward zero
TruncDiv(a, b) ==
    IF a >= 0 \/ a % b = 0 THEN a \div b ELSE a \div b + 1

\* the greatest int
MaxInt == 2147483647

\* a + b in 32-bit int arithmetic, for b > 0: signed overflow wraps around
\* in the build, the sum is taken modulo 2^32
AddInt(a, b) ==
    IF a > MaxInt - b THEN (a - MaxInt - 1) + (b - MaxInt - 1) ELSE a + b

\* get_time("%Y-%m-%d"): month 01..12 and day 01..31 are accepted
parseDate(d) == d[2] \in 1..12 /\ d[3] \in 1..31

\* mktime: days since 1970-01-01 of a calendar date
DaysFromCivil(d) ==
    LET y   == IF d[2] <= 2 THEN d[1] - 1 ELSE d[1]
        era == y \div 400
        yoe == y - era * 400
        mp  == IF d[2] > 2 THEN d[2] - 3 ELSE d[2] + 9
        doy == (153 * mp + 2) \div 5 + d[3] - 1
        doe == yoe * 365 + yoe \div 4 - yoe \div 100 + doy
    IN  era * 146097 + doe - 719468

\* localtime: calendar date of a day number
CivilFromDays(z0) ==
    LET z   == z0 + 719468
        era == z \div 146097
        doe == z - era * 146097
        yoe == (doe - doe \div 1460 + doe \div 36524 - doe \div 146096) \div 365
        doy == doe - (365 * yoe + yoe \div 4 - yoe \div 100)
        mp  == (5 * doy + 2) \div 153
        dd  == doy - (153 * mp + 2) \div 5 + 1
        mm  == IF mp < 10 THEN mp + 3 ELSE mp - 9
        yy  == yoe + era * 400 + (IF mm <= 2 THEN 1 ELSE 0)
    IN  <<yy, mm, dd>>

\* sys_time counts nanoseconds in 64 bits. An instant or a duration is a
\* pair <<h, n>>: h whole hours and n ticks of 8192 ns more, 0 <= n <
\* TicksPerHour, so that 2^64 ns is a whole number of ticks
TicksPerHour == 439453125

\* 2^63 ns and 2^64 ns
TwoTo63 == <<2562047, 346295749>>
TwoTo64 == <<5124095, 253138373>>

Carry(h, n) == <<h + n \div TicksPerHour, n % TicksPerHour>>

Plus(a, b) == Carry(a[1] + b[1], a[2] + b[2])

Minus(a, b) == Carry(a[1] - b[1], a[2] - b[2])

\* a < b
Before(a, b) == a[1] < b[1] \/ (a[1] = b[1] /\ a[2] < b[2])

\* chrono::hours(n)
Hours(n) == <<n, 0>>

\* what 64-bit arithmetic leaves of a count of nanoseconds: signed overflow
\* wraps around in the build, the value is taken modulo 2^64 into
\* -2^63 .. 2^63 - 1
RECURSIVE Wrap(_)
Wrap(x) ==
    IF -TwoTo63[1] <= x[1] /\ x[1] < TwoTo63[1] THEN x
    ELSE IF ~Before(x, TwoTo63) THEN Wrap(Minus(x, TwoTo64))
    ELSE IF Before(x, Minus(Hours(0), TwoTo63)) THEN Wrap(Plus(x, TwoTo64))
    ELSE x

\* duration_cast<chrono::hours>: the whole hours, rounded toward zero
CastHours(x) == IF x[1] < 0 /\ x[2] > 0 THEN x[1] + 1 ELSE x[1]

\* the instant of local midnight of a date that parses: mktime gives its
\* seconds, from_time_t multiplies them into nanoseconds
stringToTimePoint(d) == Wrap(Hours(24 * DaysFromCivil(d)))

\* a second is 1953125 / 16 ticks
TicksPerSecond16 == 1953125

\* to_time_t (seconds rounded toward zero), localtime and "%Y-%m-%d"
timePointToString(tp) ==
    IF tp[2] = 0 THEN CivilFromDays(tp[1] \div 24) ELSE
    LET whole == (tp[2] \div TicksPerSecond16) * 16
                    + ((tp[2] % TicksPerSecond16) * 16) \div TicksPerSecond16
        secs  == IF tp[1] < 0 /\ tp[2] % TicksPerSecond16 # 0 THEN whole + 1 ELSE whole
        h     == IF secs = 3600 THEN tp[1] + 1 ELSE tp[1]
    IN  CivilFromDays(h \div 24)

daysBetween(d1, d2) ==
    IF ~parseDate(d1) \/ ~parseDate(d2) THEN 0
    ELSE TruncDiv(CastHours(Wrap(Minus(stringToTimePoint(d2),
                                       stringToTimePoint(d1)))), 24)

Twice(x) == Wrap(Plus(x, x))

\* chrono::hours(24LL * days) as a count of nanoseconds
HoursOfDays(days) ==
    IF -100000 < days /\ days < 100000 THEN Hours(24 * days)
    ELSE LET d8 == Twice(Twice(Twice(Wrap(Hours(days)))))
         IN  Wrap(Plus(Twice(d8), d8))

\* "" (here <<>>) when the date does not parse
addDays(dateStr, days) ==
    IF ~parseDate(dateStr) THEN <<>>
    ELSE timePointToString(Wrap(Plus(stringToTimePoint(dateStr), HoursOfDays(days))))

(* ------------------------------ records -------------------------------- *)
CycleEntry(s, e, d, c) ==
    [startDate |-> s, endDate |-> e, durationDays |-> d, cycleLength |-> c]

Reminder(w, m) == [when |-> w, message |-> m]

\* "Predicted next period: " + predicted
PredictedMessage(predicted) == <<"Predicted next period: ", predicted>>

\* a message typed by the user
ManualMessage(text) == <<text, <<>>>>

(* --------------------------- vector helpers ---------------------------- *)
\* find_if over the indices that satisfy the predicate: the first of them,
\* 0 for end()
FindIf(matches) ==
    IF matches = {} THEN 0
    ELSE CHOOSE i \in matches : \A j \in matches : i <= j

\* vector::erase of the element at index i
Erase(s, i) == SubSeq(s, 1, i - 1) \o SubSeq(s, i + 1, Len(s))

\* find_if on startDate and endDate, as undo and redo do
FindEntry(s, entry) ==
    FindIf({i \in 1..Len(s) :
               s[i].startDate = entry.startDate /\ s[i].endDate = entry.endDate})

\* find_if on startDate only, as deleteCycleByStart does
FindStart(s, target) ==
    FindIf({i \in 1..Len(s) : s[i].startDate = target})

\* the orders std::sort may leave: every permutation of s ascending by
\* startDate (std::sort is not stable, entries with equal startDate may
\* land in any order)
SortByStart(s) ==
    LET n == Len(s)
        orders == { p \in [1..n -> 1..n] :
                      /\ \A i, j \in 1..n : i # j => p[i] # p[j]
                      /\ \A i \in 1..(n - 1) :
                            ~StrLess(s[p[i + 1]].startDate, s[p[i]].startDate) }
    IN  { [i \in 1..n |-> s[p[i]]] : p \in orders }

(* ---------------------------- prediction ------------------------------- *)
\* the int sum of lines 170-173 after the loop over s
RECURSIVE SumPositive(_)
SumPositive(s) ==
    IF s = <<>> THEN 0
    ELSE LET c    == s[Len(s)].cycleLength
             rest == SumPositive(SubSeq(s, 1, Len(s) - 1))
         IN  IF c > 0 THEN AddInt(rest, c) ELSE rest

CountPositive(s) == Cardinality({i \in 1..Len(s) : s[i].cycleLength > 0})

averageCycleLength(s) ==
    IF CountPositive(s) > 0 THEN TruncDiv(SumPositive(s), CountPositive(s)) ELSE 28

\* the loop of lines 435-436: the greatest startDate of a non-empty ledger
LastStart(s) ==
    CHOOSE d \in {s[i].startDate : i \in 1..Len(s)} :
        \A i \in 1..Len(s) : ~StrLess(d, s[i].startDate)

predictNextPeriod(s) == addDays(LastStart(s), averageCycleLength(s))

(* ----------------------------- reminders ------------------------------- *)
\* the priority queue is a bag of reminders; top() is one of least `when`
pushReminder(q, r) == q (+) SetToBag({r})

\* variant: the old reminders are not popped first
rebuildRemindersFromCycles_Append(q, s) ==
    LET predicted == predictNextPeriod(s)
    IN  IF s # <<>> /\ parseDate(predicted)
        THEN pushReminder(q, Reminder(stringToTimePoint(predicted),
                                      PredictedMessage(predicted)))
        ELSE q

\* the queue after rebuildRemindersFromCycles on ledger s: every reminder
\* is popped, then the predicted one is pushed when the ledger is non-empty
rebuildRemindersFromCycles(q, s) ==
    LET predicted == predictNextPeriod(s)
    IN  IF s # <<>> /\ parseDate(predicted)
        THEN pushReminder(EmptyBag,
                          Reminder(stringToTimePoint(predicted),
                                   PredictedMessage(predicted)))
        ELSE EmptyBag

\* chrono::system_clock::now(): the instant hh hours and f ticks past
\* midnight of day d
ClockAt(d, hh, f) == Wrap(Plus(stringToTimePoint(d), <<hh, f>>))

\* the instants at which the menu is used: midnight of 2024-01-01 to the
\* tick, and a moment past ten in the morning of 2024-03-01
ClockInstants == { ClockAt(<<2024, 1, 1>>, 0, 0), ClockAt(<<2024, 3, 1>>, 10, 1) }

\* when < now
Earlier(when, now) == Before(when, now)

\* reminders.top(): CompareReminder makes the queue a min-heap, its top is
\* a reminder of least instant; which one of several with that instant
\* depends on the order of the pushes
TopReminders_Latest(q) ==
    { r \in BagToSet(q) : \A x \in BagToSet(q) : ~Before(r.when, x.when) }

TopReminders(q) ==
    { r \in BagToSet(q) : \A x \in BagToSet(q) : ~Before(x.when, r.when) }

\* reminders.pop() when the top is r: one copy of r leaves the queue
PopReminder(q, r) == q (-) SetToBag({r})

\* the queues cleanupPastReminders can leave at instant now: the top is
\* popped while it is before now
RECURSIVE cleanupPastReminders(_, _)
cleanupPastReminders(q, now) ==
    IF BagToSet(q) = {} THEN {q}
    ELSE UNION { IF Earlier(r.when, now)
                 THEN cleanupPastReminders(PopReminder(q, r), now)
                 ELSE {q} : r \in TopReminders(q) }

\* showReminders, the vector temp: the queue is popped empty into it and
\* it is sorted by instant; neither the heap nor std::sort fixes the order
\* of reminders of equal instant, so every such order is a possible temp
RECURSIVE SortedByWhen(_)
SortedByWhen(q) ==
    IF BagToSet(q) = {} THEN { <<>> }
    ELSE UNION { { <<r>> \o t : t \in SortedByWhen(q (-) SetToBag({r})) } :
                 r \in { x \in BagToSet(q) :
                            \A y \in BagToSet(q) : ~Before(y.when, x.when) } }

\* showReminders prints the first ShowLimit entries of temp
ShowLimit == 20

Displayed(temp) ==
    SubSeq(temp, 1, IF Len(temp) < ShowLimit THEN Len(temp) ELSE ShowLimit)

\* showReminders, the last loop: every entry of temp is pushed back
RECURSIVE PushAll(_, _)
PushAll(q, temp) ==
    IF temp = <<>> THEN q
    ELSE PushAll(pushReminder(q, Head(temp)), Tail(temp))

(* ------------------------------- state --------------------------------- *)
\* `last` records the last menu choice as the console shows it: the handler,
\* what the user typed, the outcome it printed, the ledger and the depth of
\* the redo stack it started from, the two stacks it started from, what a
\* listing printed, the reminders a listing dropped as past,
\* `after`: "add" or "del" when the choice before it was an add or a
\* delete that went through, "undo_add" or "undo_del" when it was an undo
\* that came right after one, "other" otherwise,
\* and `run`, kept only by sessions that note the ledger they started from:
\* that ledger, joined from the first undo on by the ledger that undo found
NoOp ==
    [op |-> "none", arg |-> <<>>, out |-> "none", pre |-> <<>>, redoBefore |-> 0,
     stacks |-> <<<<>>, <<>>>>, shown |-> <<>>, pruned |-> EmptyBag,
     after |-> "other", run |-> <<>>]

Did(o, a, res) ==
    [op |-> o, arg |-> a, out |-> res, pre |-> cycles, redoBefore |-> Len(redoStack),
     stacks |-> <<undoStack, redoStack>>, shown |-> <<>>, pruned |-> EmptyBag,
     after |-> IF last.op \in {"add", "del"} /\ last.out = "ok" THEN last.op
               ELSE IF last.op = "undo" /\ last.after = "add" THEN "undo_add"
               ELSE IF last.op = "undo" /\ last.after = "del" THEN "undo_del"
               ELSE "other",
     run |-> IF Len(last.run) = 1 /\ o = "undo" THEN <<last.run[1], cycles>>
             ELSE last.run]

\* cycles.csv as an earlier run left it: absent, or written by saveData
\* after insert 2024-01-29, insert 2024-01-01, delete 2024-01-29
SavedLedgers ==
    { <<>>, << CycleEntry(<<2024, 1, 1>>, <<2024, 2, 2>>, 32, -28) >> }

\* the constructor: loadData, which ends with rebuildRemindersFromCycles
Init ==
    /\ cycles \in SavedLedgers
    /\ stored = cycles
    /\ undoStack = <<>>
    /\ redoStack = <<>>
    /\ reminders = rebuildRemindersFromCycles(EmptyBag, cycles)
    /\ last = NoOp

(* ------------------------------ handlers ------------------------------- *)
\* an early return after an error message: nothing is touched
Rejected(o, a, res) ==
    /\ UNCHANGED stored
    /\ last' = Did(o, a, res)
    /\ UNCHANGED <<cycles, undoStack, redoStack, reminders>>

\* line 220-221: the cycleLength given to a new entry starting on `start`
NewCycleLength(s, start) ==
    IF s # <<>> THEN daysBetween(s[Len(s)].startDate, start) ELSE 0

\* variant: the redo stack is left as it is
ClearRedo_Keep(rs) == rs

\* lines 229 and 256: the redo stack after a new add or delete
ClearRedo(rs) == <<>>

\* menu choice 1, with the dates typed drawn from starts and ends, while
\* the undo stack holds fewer than hist actions
addCycleFromUserOf(starts, ends, hist) ==
    \E start \in starts, end \in ends :
        IF ~parseDate(start) \/ ~parseDate(end)
        THEN Rejected("add", <<start, end>>, "InvalidFormat")
        ELSE IF daysBetween(start, end) < 0
        THEN Rejected("add", <<start, end>>, "InvalidRange")
        ELSE LET e == CycleEntry(start, end, daysBetween(start, end),
                                 NewCycleLength(cycles, start))
             IN  /\ Len(cycles) < MaxCycles
                 /\ Len(undoStack) < hist
                 /\ cycles' = Append(cycles, e)
                 /\ undoStack' = Append(undoStack, <<"add", e>>)
                 /\ redoStack' = ClearRedo(redoStack)
                 /\ reminders' = rebuildRemindersFromCycles(reminders, cycles')
                 /\ UNCHANGED stored
                 /\ last' = Did("add", <<start, end>>, "ok")

addCycleFromUser == addCycleFromUserOf(StartInputs, EndInputs, MaxHist)

\* variant: *it is read after the erase
Removed_AfterErase(s, it) ==
    IF it < Len(s) THEN Erase(s, it)[it] ELSE s[it]

\* line 251: the copy of *it taken before the erase
Removed(s, it) == s[it]

\* menu choice 2, with the date typed drawn from targets, while the undo
\* stack holds fewer than hist actions
deleteCycleByStartOf(targets, hist) ==
    IF cycles = <<>>
    THEN Rejected("del", <<>>, "Empty")
    ELSE \E target \in targets :
        IF FindStart(cycles, target) = 0
        THEN Rejected("del", <<target>>, "NotFound")
        ELSE LET it == FindStart(cycles, target)
             IN  /\ Len(undoStack) < hist
                 /\ cycles' = Erase(cycles, it)
                 /\ undoStack' = Append(undoStack, <<"del", Removed(cycles, it)>>)
                 /\ redoStack' = ClearRedo(redoStack)
                 /\ reminders' = rebuildRemindersFromCycles(reminders, cycles')
                 /\ UNCHANGED stored
                 /\ last' = Did("del", <<target>>, "ok")

deleteCycleByStart == deleteCycleByStartOf(TargetInputs, MaxHist)

\* the top and the rest of a non-empty stack
Top(st) == st[Len(st)]
Pop(st) == SubSeq(st, 1, Len(st) - 1)

\* variant: the entry comes back with its cycleLength reset
Restore_Reset(s, entry) ==
    SortByStart(Append(s, CycleEntry(entry.startDate, entry.endDate,
                                     entry.durationDays, 0)))

\* lines 291-295 and 323-327: push_back, then sort by startDate
Restore(s, entry) == SortByStart(Append(s, entry))

\* variant: the reminders are rebuilt before the stack is looked at
NothingToUndo_Rebuild ==
    /\ UNCHANGED stored
    /\ last' = Did("undo", <<>>, "EmptyHistory")
    /\ reminders' = rebuildRemindersFromCycles(reminders, cycles)
    /\ UNCHANGED <<cycles, undoStack, redoStack>>

\* lines 264-267: "Nothing to undo."
NothingToUndo == Rejected("undo", <<>>, "EmptyHistory")

\* variant: the popped action goes to the redo stack all the same
StaleUndo_Push ==
    /\ UNCHANGED stored
    /\ last' = Did("undo", <<>>, "StaleState")
    /\ redoStack' = Append(redoStack, Top(undoStack))
    /\ UNCHANGED cycles

\* lines 282-284 and 298-300: the popped action does not apply; the ledger
\* and the redo stack stay
StaleUndo ==
    /\ UNCHANGED stored
    /\ last' = Did("undo", <<>>, "StaleState")
    /\ UNCHANGED <<cycles, redoStack>>

\* menu choice 3
undo ==
    IF undoStack = <<>>
    THEN NothingToUndo
    ELSE LET action == Top(undoStack)[1]
             entry == Top(undoStack)[2]
             it == FindEntry(cycles, entry)
         IN  /\ undoStack' = Pop(undoStack)
             /\ IF action = "add"
                THEN IF it # 0
                     THEN /\ cycles' = Erase(cycles, it)
                          /\ redoStack' = Append(redoStack, <<"add", entry>>)
                          /\ UNCHANGED stored
                          /\ last' = Did("undo", <<>>, "ok")
                     ELSE StaleUndo
                ELSE IF it = 0
                     THEN /\ cycles' \in Restore(cycles, entry)
                          /\ redoStack' = Append(redoStack, <<"del", entry>>)
                          /\ UNCHANGED stored
                          /\ last' = Did("undo", <<>>, "ok")
                     ELSE StaleUndo
             /\ reminders' = rebuildRemindersFromCycles(reminders, cycles')

\* lines 309-312: "Nothing to redo."
NothingToRedo == Rejected("redo", <<>>, "EmptyHistory")

\* variant: the popped action goes to the undo stack all the same
StaleRedo_Push ==
    /\ UNCHANGED stored
    /\ last' = Did("redo", <<>>, "StaleState")
    /\ undoStack' = Append(undoStack, Top(redoStack))
    /\ UNCHANGED cycles

\* lines 329-331 and 341-343: the popped action does not apply
StaleRedo ==
    /\ UNCHANGED stored
    /\ last' = Did("redo", <<>>, "StaleState")
    /\ UNCHANGED <<cycles, undoStack>>

\* variant: the action pushed back onto the undo stack is the opposite one
redo_PushOpposite ==
    IF redoStack = <<>>
    THEN NothingToRedo
    ELSE LET action == Top(redoStack)[1]
             entry == Top(redoStack)[2]
             it == FindEntry(cycles, entry)
         IN  /\ redoStack' = Pop(redoStack)
             /\ IF action = "add"
                THEN IF it = 0
                     THEN /\ cycles' \in Restore(cycles, entry)
                          /\ undoStack' = Append(undoStack, <<"del", entry>>)
                          /\ UNCHANGED stored
                          /\ last' = Did("redo", <<>>, "ok")
                     ELSE StaleRedo
                ELSE IF it # 0
                     THEN /\ cycles' = Erase(cycles, it)
                          /\ undoStack' = Append(undoStack, <<"add", entry>>)
                          /\ UNCHANGED stored
                          /\ last' = Did("redo", <<>>, "ok")
                     ELSE StaleRedo
             /\ reminders' = rebuildRemindersFromCycles(reminders, cycles')

\* menu choice 4
redo ==
    IF redoStack = <<>>
    THEN NothingToRedo
    ELSE LET action == Top(redoStack)[1]
             entry == Top(redoStack)[2]
             it == FindEntry(cycles, entry)
         IN  /\ redoStack' = Pop(redoStack)
             /\ IF action = "add"
                THEN IF it = 0
                     THEN /\ cycles' \in Restore(cycles, entry)
                          /\ undoStack' = Append(undoStack, <<"add", entry>>)
                          /\ UNCHANGED stored
                          /\ last' = Did("redo", <<>>, "ok")
                     ELSE StaleRedo
                ELSE IF it # 0
                     THEN /\ cycles' = Erase(cycles, it)
                          /\ undoStack' = Append(undoStack, <<"del", entry>>)
                          /\ UNCHANGED stored
                          /\ last' = Did("redo", <<>>, "ok")
                     ELSE StaleRedo
             /\ reminders' = rebuildRemindersFromCycles(reminders, cycles')

\* menu choice 6: a copy of the ledger is sorted by startDate and printed,
\* one row per entry
displayCycles ==
    IF cycles = <<>>
    THEN Rejected("list", <<>>, "Empty")
    ELSE \E sorted \in SortByStart(cycles) :
            /\ UNCHANGED stored
            /\ last' = [Did("list", <<>>, "ok") EXCEPT !.shown = sorted]
            /\ UNCHANGED <<cycles, undoStack, redoStack, reminders>>

\* menu choice 8a, with chrono::system_clock::now() at instant `now`: past
\* reminders are dropped, the rest are popped into a vector, printed and
\* pushed back
showReminders ==
    \E now \in ClockInstants :
        \E pending \in cleanupPastReminders(reminders, now) :
            /\ IF BagToSet(pending) = {}
               THEN /\ reminders' = pending
                    /\ UNCHANGED stored
                    /\ last' = [Did("show", <<now>>, "Empty")
                                  EXCEPT !.pruned = reminders (-) pending]
               ELSE \E temp \in SortedByWhen(pending) :
                       /\ reminders' = PushAll(EmptyBag, temp)
                       /\ UNCHANGED stored
                       /\ last' = [Did("show", <<now>>, "ok")
                                     EXCEPT !.shown = Displayed(temp),
                                            !.pruned = reminders (-) pending]
            /\ UNCHANGED <<cycles, undoStack, redoStack>>

\* menu choice 8b
addManualReminder ==
    \E date \in ReminderDateInputs, msg \in ReminderTextInputs :
        IF ~parseDate(date)
        THEN Rejected("remind", <<date>>, "InvalidFormat")
        ELSE /\ BagCardinality(reminders) < MaxReminders
             /\ reminders' = pushReminder(reminders,
                                 Reminder(stringToTimePoint(date), ManualMessage(msg)))
             /\ UNCHANGED stored
             /\ last' = Did("remind", <<date>>, "ok")
             /\ UNCHANGED <<cycles, undoStack, redoStack>>

Next ==
    \/ addCycleFromUser
    \/ deleteCycleByStart
    \/ undo
    \/ redo
    \/ displayCycles
    \/ showReminders
    \/ addManualReminder

Spec == Init /\ [][Next]_vars

\* the constructor when cycles.csv is absent: the ledger starts empty
InitFresh ==
    /\ cycles = <<>>
    /\ stored = cycles
    /\ undoStack = <<>>
    /\ redoStack = <<>>
    /\ reminders = rebuildRemindersFromCycles(EmptyBag, cycles)
    /\ last = NoOp

SpecFresh == InitFresh /\ [][Next]_vars

(* ------------------- dates centuries apart, fresh ledger --------------- *)
\* a start date typed with two digits of the year swapped
FarStartInputs == { <<2024, 1, 1>>, <<2420, 1, 1>> }
FarEndInputs == { <<2024, 1, 5>>, <<2420, 1, 5>> }

NextFar ==
    \/ addCycleFromUserOf(FarStartInputs, FarEndInputs, MaxHist)
    \/ deleteCycleByStart
    \/ undo
    \/ redo
    \/ displayCycles

SpecFar == InitFresh /\ [][NextFar]_vars

(* ------------- the same dates typed twice, on a fresh ledger ----------- *)
\* deepest undo stack an insert or delete may extend in these sessions
MaxTwinHist == 3

TwinStartInputs == { <<2024, 1, 1>>, <<2024, 1, 29>> }
TwinEndInputs == { <<2024, 2, 2>> }

NextTwin ==
    \/ addCycleFromUserOf(TwinStartInputs, TwinEndInputs, MaxTwinHist)
    \/ deleteCycleByStartOf(TwinStartInputs, MaxTwinHist)
    \/ undo
    \/ redo

SpecTwin == InitFresh /\ [][NextTwin]_vars

(* ------------- edits, then undo to the end, then redo to the end ------- *)
\* cycles.csv as earlier runs left it: as in SavedLedgers, or after insert
\* 2024-01-01..2024-01-05 and insert 2024-01-29..2024-02-02, or after
\* insert 2024-01-01..2024-02-02 twice
UnwindLedgers ==
    SavedLedgers
    \cup { << CycleEntry(<<2024, 1, 1>>, <<2024, 1, 5>>, 4, 0),
              CycleEntry(<<2024, 1, 29>>, <<2024, 2, 2>>, 4, 28) >>,
           << CycleEntry(<<2024, 1, 1>>, <<2024, 2, 2>>, 32, 0),
              CycleEntry(<<2024, 1, 1>>, <<2024, 2, 2>>, 32, 0) >> }

InitUnwind ==
    /\ cycles \in UnwindLedgers
    /\ stored = cycles
    /\ undoStack = <<>>
    /\ redoStack = <<>>
    /\ reminders = rebuildRemindersFromCycles(EmptyBag, cycles)
    /\ last = [NoOp EXCEPT !.run = <<cycles>>]

\* the user has so far only inserted and deleted
Building == last.op \in {"none", "add", "del"}

\* the user has not yet been told "Nothing to undo."
Unwinding ==
    /\ last.op \in {"none", "add", "del", "undo"}
    /\ ~(last.op = "undo" /\ last.out = "EmptyHistory")

\* the user has been told "Nothing to undo." and not yet "Nothing to redo."
Replaying ==
    \/ last.op = "undo" /\ last.out = "EmptyHistory"
    \/ last.op = "redo" /\ last.out # "EmptyHistory"

\* the insert just made did not repeat the dates of a record of the ledger
FreshInsert ==
    last'.out = "ok" =>
        \A i \in 1..Len(cycles) :
            ~(cycles[i].startDate = last'.arg[1] /\ cycles[i].endDate = last'.arg[2])

NextUnwind ==
    \/ Building /\ addCycleFromUser /\ FreshInsert
    \/ Building /\ deleteCycleByStart
    \/ Unwinding /\ undo
    \/ Replaying /\ redo

SpecUnwind == InitUnwind /\ [][NextUnwind]_vars

(* ------------------ reading and saving a stored ledger ----------------- *)
\* duration_cast<chrono::hours>(target - now): the whole hours from now to
\* target, rounded toward zero
HoursUntil(target, now) == CastHours(Wrap(Minus(target, now)))

\* days from instant `now` to a date: the whole hours, divided by 24 and
\* rounded toward zero again
daysFromTodayTo(dateStr, now) ==
    IF ~parseDate(dateStr) THEN 0
    ELSE TruncDiv(HoursUntil(stringToTimePoint(dateStr), now), 24)

\* menu choice 7, with chrono::system_clock::now() at instant `now`: prints
\* the average cycle length, the predicted start and the days until it
predictNextPeriodMenu ==
    IF cycles = <<>>
    THEN Rejected("predict", <<>>, "Empty")
    ELSE \E now \in ClockInstants :
            LET avgLen        == averageCycleLength(cycles)
                lastStart     == LastStart(cycles)
                predictedNext == addDays(lastStart, avgLen)
            IN  /\ UNCHANGED stored
                /\ last' = [Did("predict", <<now>>, "ok")
                              EXCEPT !.shown = <<avgLen, predictedNext,
                                                 daysFromTodayTo(predictedNext, now)>>]
                /\ UNCHANGED <<cycles, undoStack, redoStack, reminders>>

\* how the stream on cycles.csv fares in saveData: every row is written,
\* the file cannot be opened, or the writes stop at some byte
IoOutcomes == { "written", "notOpened", "cutShort" }

\* what stoi reads of the decimal text of n when the text stops early: the
\* values of its proper prefixes that hold a digit
RECURSIVE CutNumbers(_)
CutNumbers(n) ==
    IF -10 < n /\ n < 10 THEN {}
    ELSE { TruncDiv(n, 10) } \cup CutNumbers(TruncDiv(n, 10))

\* the rows loadData reads from a cycles.csv that holds the rows of s and
\* stops at some byte: a row that stops before its fourth field holds a
\* digit is dropped, a row that stops inside the digits of cycleLength is
\* read with the digits that are there, a row that only lacks its newline
\* is read whole
CutRows(s) ==
    { SubSeq(s, 1, k) : k \in 0..Len(s) }
    \cup UNION { { Append(SubSeq(s, 1, k - 1), [s[k] EXCEPT !.cycleLength = c]) :
                      c \in CutNumbers(s[k].cycleLength) } : k \in 1..Len(s) }

\* saveData on ledger s when cycles.csv holds the rows old: whether the file
\* was truncated, and its rows as loadData reads them afterwards; a file
\* that cannot be opened stays as it was
saveData(io, s, old) ==
    IF io = "notOpened" THEN { <<"untouched", old>> }
    ELSE IF io = "cutShort"
    THEN { <<"truncated", rows>> : rows \in CutRows(s) }
    ELSE { <<"truncated", s>> }

\* menu choice 11: saveData, then "Data saved" whatever became of the streams
saveAndExit ==
    \E io \in IoOutcomes :
        \E file \in saveData(io, cycles, stored) :
            /\ stored' = file[2]
            /\ last' = [Did("save", <<io>>, "Saved") EXCEPT !.shown = file]
            /\ UNCHANGED <<cycles, undoStack, redoStack, reminders>>

\* most inserts behind a stored ledger
ViewLen == 3

\* the start dates of those inserts; 2024-02-27 makes sums of spacings odd
\* and "2024-1-15" is typed without the zero
ViewStarts ==
    { <<2024, 1, 1>>, <<2024, 1, 29>>, <<2024, 2, 27>>, <<2024, 2, 28>>,
      <<2024, 1, 15, <<1, 2>>>> }

\* the ledger after inserts with the given start dates, each lasting 4 days
RECURSIVE AfterInserts(_)
AfterInserts(starts) ==
    IF starts = <<>> THEN <<>>
    ELSE LET s     == AfterInserts(SubSeq(starts, 1, Len(starts) - 1))
             start == starts[Len(starts)]
         IN  Append(s, CycleEntry(start, addDays(start, 4), 4, NewCycleLength(s, start)))

\* rows of a cycles.csv written by hand or by another tool: loadData takes
\* any number stoi reads as cycleLength
WrittenLedgers ==
    { << CycleEntry(<<2024, 1, 1>>, <<2024, 1, 5>>, 4, 0),
         CycleEntry(<<2024, 1, 29>>, <<2024, 2, 2>>, 4, big),
         CycleEntry(<<2024, 2, 27>>, <<2024, 3, 2>>, 4, big) >> :
        big \in { 28, 2000000000 } }

\* cycles.csv as earlier runs left it: up to ViewLen inserts, then at most
\* one delete; or as it was written by hand
StoredLedgers ==
    LET inserted == { AfterInserts(p) :
                        p \in UNION { [1..n -> ViewStarts] : n \in 0..ViewLen } }
    IN  inserted \cup UNION { { Erase(s, i) : i \in 1..Len(s) } : s \in inserted }
                 \cup WrittenLedgers

InitView ==
    /\ cycles \in StoredLedgers
    /\ stored = cycles
    /\ undoStack = <<>>
    /\ redoStack = <<>>
    /\ reminders = rebuildRemindersFromCycles(EmptyBag, cycles)
    /\ last = NoOp

\* the menu loop ends with choice 11
Running == last.op # "save"

NextView ==
    \/ Running /\ displayCycles
    \/ Running /\ predictNextPeriodMenu
    \/ Running /\ saveAndExit

SpecView == InitView /\ [][NextView]_vars

(* ------------------- the reminder queue on its own --------------------- *)
\* most reminders of one date a queue holds when listings start
QueueLen == 21

QueueTexts == { "call doctor", "buy supplies", "refill iron", "book scan" }

Copies(r, n) == [x \in (IF n = 0 THEN {} ELSE {r}) |-> n]

\* queues that runs of menu choice 8b build on an empty ledger: at most one
\* reminder for 2020-01-01, for 2024-01-01, for 2024-03-01 and for
\* 2300-01-01 and up to QueueLen for 2099-01-01, or one reminder per text,
\* all for 2099-01-01
QueuedReminders ==
    { Copies(Reminder(stringToTimePoint(<<2020, 1, 1>>), ManualMessage("call doctor")), i)
        (+) Copies(Reminder(stringToTimePoint(<<2300, 1, 1>>), ManualMessage("call doctor")), g)
        (+) Copies(Reminder(stringToTimePoint(<<2024, 1, 1>>), ManualMessage("call doctor")), h)
        (+) Copies(Reminder(stringToTimePoint(<<2024, 3, 1>>), ManualMessage("call doctor")), j)
        (+) Copies(Reminder(stringToTimePoint(<<2099, 1, 1>>), ManualMessage("call doctor")), k) :
          g \in 0..1, i \in 0..1, h \in 0..1, j \in 0..1, k \in 0..QueueLen }
    \cup { SetToBag({ Reminder(stringToTimePoint(<<2099, 1, 1>>), ManualMessage(t)) :
                        t \in QueueTexts }) }

InitQueue ==
    /\ cycles = <<>>
    /\ stored = cycles
    /\ undoStack = <<>>
    /\ redoStack = <<>>
    /\ reminders \in QueuedReminders
    /\ last = NoOp

NextQueue ==
    \/ showReminders
    \/ addManualReminder

SpecQueue == InitQueue /\ [][NextQueue]_vars

(* ============================== properties ============================== *)
LedgerOps == {"add", "del", "undo", "redo"}

\* the records of a ledger with their multiplicities, physical order ignored
Content(s) ==
    [r \in {s[i] : i \in 1..Len(s)} |-> Cardinality({i \in 1..Len(s) : s[i] = r})]

\* how many records of s carry the startDate and endDate of r
Twins(s, r) ==
    Cardinality({i \in 1..Len(s) :
                    s[i].startDate = r.startDate /\ s[i].endDate = r.endDate})

History == <<cycles, undoStack, redoStack, reminders>>

(* C1: an add or a delete that goes through leaves the redo stack empty,   *)
(* and a redo right after it reports nothing to redo and changes nothing.  *)
C1_NewActionClearsRedo ==
    [][ /\ (last'.op \in {"add", "del"} /\ last'.out = "ok") => redoStack' = <<>>
        /\ (last.op \in {"add", "del"} /\ last.out = "ok" /\ last'.op = "redo")
              => (last'.out = "EmptyHistory" /\ History' = History) ]_vars

\* an add that found something to redo and left nothing
C1_Witness ==
    /\ last.op = "add" /\ last.out = "ok"
    /\ last.redoBefore > 0 /\ redoStack = <<>>

IsManual(r) == r.message[2] = <<>>

(* C2: a manually added reminder is still in the queue after every add,    *)
(* delete, undo and redo.                                                  *)
C2_ManualReminderSurvives ==
    [][ last'.op \in LedgerOps =>
          \A r \in BagToSet(reminders) :
              IsManual(r) => CopiesIn(r, reminders') >= CopiesIn(r, reminders) ]_vars

(* C3: an add followed at once by an undo gives back the content the       *)
(* ledger had before the add.                                              *)
C3_InsertUndoRestores ==
    [][ (last.op = "add" /\ last.out = "ok" /\ last'.op = "undo")
          => Content(cycles') = Content(last.pre) ]_vars

(* C4, as claimed: a delete followed at once by an undo gives back the     *)
(* deleted record, fields unchanged, next to the untouched others.         *)
C4_DeleteUndoRestores ==
    [][ (last.op = "del" /\ last.out = "ok" /\ last'.op = "undo")
          => Content(cycles') = Content(last.pre) ]_vars

(* C4, amended: the same, when no other record of the ledger carries the   *)
(* (startDate, endDate) of the deleted record.                             *)
C4_DeleteUndoRestoresNoTwin ==
    [][ ( /\ last.op = "del" /\ last.out = "ok" /\ last'.op = "undo"
          /\ Twins(last.pre, last.pre[FindStart(last.pre, last.arg[1])]) = 1 )
          => Content(cycles') = Content(last.pre) ]_vars

\* an undo right after the delete of the earlier of two records, the later
\* one keeping its spacing of 28
C4_Witness ==
    /\ last.op = "undo" /\ last.out = "ok" /\ last.after = "del"
    /\ Len(cycles) = 2
    /\ \E i, j \in 1..2 : cycles[i].cycleLength = 0 /\ cycles[j].cycleLength = 28

(* C5, as claimed: after one add or delete, undo then redo leaves the      *)
(* content the ledger had right after that add or delete.                  *)
C5_UndoRedoNoOp ==
    [][ (last.op = "undo" /\ last.after \in {"add", "del"} /\ last'.op = "redo")
          => Content(cycles') = Content(last.pre) ]_vars

(* C5, amended: the same for any delete, and for an add of a (startDate,   *)
(* endDate) that no other record of the ledger carries (the added record   *)
(* is the last one of the ledger the undo started from).                   *)
C5_UndoRedoNoOpNoTwin ==
    [][ ( /\ last.op = "undo" /\ last.after \in {"add", "del"} /\ last'.op = "redo"
          /\ last.after = "add" => Twins(last.pre, last.pre[Len(last.pre)]) = 1 )
          => Content(cycles') = Content(last.pre) ]_vars

\* a redo that went through right after the undo of an add
C5_Witness ==
    /\ last.op = "redo" /\ last.out = "ok" /\ last.after = "undo_add"
    /\ Len(cycles) = 2 /\ Twins(cycles, cycles[1]) = 1
    /\ \E i \in 1..2 : cycles[i].cycleLength # 0

\* days from the greatest startDate before `start` to `start`, 0 when no
\* record starts before it
ChronoSpacing(s, start) ==
    LET earlier == {DaysFromCivil(s[i].startDate) : i \in 1..Len(s)}
                       \cap (0..(DaysFromCivil(start) - 1))
    IN  IF earlier = {} THEN 0
        ELSE DaysFromCivil(start) - (CHOOSE d \in earlier : \A x \in earlier : x <= d)

(* C6: an add gives the new record the day count from the chronologically  *)
(* previous startDate, and 0 when no record starts earlier.                *)
C6_SpacingFromChronoPrevious ==
    [][ (last'.op = "add" /\ last'.out = "ok")
          => cycles'[Len(cycles')].cycleLength = ChronoSpacing(cycles, last'.arg[1]) ]_vars

IsDerived(r) == r.message[1] = "Predicted next period: "

\* how many reminders of the queue are ledger-derived
DerivedCount(q) ==
    LET ds == {r \in BagToSet(q) : IsDerived(r)}
    IN  IF ds = {} THEN 0
        ELSE IF Cardinality(ds) = 1 THEN CopiesIn(CHOOSE r \in ds : TRUE, q)
        ELSE 2

\* the greatest startDate of a non-empty ledger, as a day number
LatestStartDay(s) ==
    CHOOSE d \in {DaysFromCivil(s[i].startDate) : i \in 1..Len(s)} :
        \A i \in 1..Len(s) : DaysFromCivil(s[i].startDate) <= d

(* C7: after every add, delete, undo and redo that goes through, the queue *)
(* holds one ledger-derived reminder, for the date predictNextPeriod gives *)
(* on the ledger as it is then, when the ledger is non-empty, and none     *)
(* otherwise.                                                              *)
C7_OneDerivedReminder ==
    [][ (last'.op \in LedgerOps /\ last'.out = "ok") =>
          IF cycles' = <<>> THEN DerivedCount(reminders') = 0
          ELSE LET predicted == predictNextPeriod(cycles')
               IN  /\ DerivedCount(reminders') = 1
                   /\ \A r \in BagToSet(reminders') : IsDerived(r) =>
                         /\ r.message[2] = predicted
                         /\ r.when = stringToTimePoint(r.message[2]) ]_vars

\* a delete of the latest record of a ledger that stays non-empty: the
\* prediction moves back with the latest startDate
C7_Witness ==
    /\ last.op = "del" /\ last.out = "ok" /\ cycles # <<>>
    /\ LatestStartDay(cycles) < LatestStartDay(last.pre)
    /\ DerivedCount(reminders) = 1

\* the popped undo action a does not apply to ledger s
IsStale(a, s) ==
    \/ a[1] = "add" /\ Twins(s, a[2]) = 0
    \/ a[1] = "del" /\ Twins(s, a[2]) > 0

(* C8: an undo whose popped action is stale leaves the ledger and the redo *)
(* stack as they were.                                                     *)
C8_StaleUndoTouchesNothing ==
    [][ (last'.op = "undo" /\ undoStack # <<>> /\ IsStale(Top(undoStack), cycles))
          => (cycles' = cycles /\ redoStack' = redoStack
              /\ last'.out = "StaleState") ]_vars

\* an undo that popped an Add whose record is no longer in the ledger
C8_Witness ==
    /\ last.op = "undo" /\ last.out = "StaleState"
    /\ Top(last.stacks[1])[1] = "add"
    /\ Twins(cycles, Top(last.stacks[1])[2]) = 0

\* an undo that popped a Delete whose record has a twin in the ledger
C8_StaleDelete ==
    /\ last.op = "undo" /\ last.out = "StaleState"
    /\ Top(last.stacks[1])[1] = "del"
    /\ Twins(cycles, Top(last.stacks[1])[2]) > 0

(* C9: undo on an empty undo stack and redo on an empty redo stack report  *)
(* an empty history and leave ledger, both stacks and reminders alone.     *)
C9_EmptyHistoryNoOp ==
    [][ ( \/ last'.op = "undo" /\ undoStack = <<>>
          \/ last'.op = "redo" /\ redoStack = <<>> )
          => (last'.out = "EmptyHistory" /\ History' = History) ]_vars

\* an undo with nothing to undo, a manual reminder being in the queue
C9_Witness ==
    /\ last.op = "undo" /\ last.out = "EmptyHistory"
    /\ cycles # <<>> /\ \E r \in BagToSet(reminders) : IsManual(r)

(* C10: an add whose endDate is before its startDate, and a delete of a    *)
(* date no record starts on, leave ledger, stacks and reminders alone.     *)
C10_RejectedMutationNoOp ==
    [][ ( \/ /\ last'.op = "add"
             /\ parseDate(last'.arg[1]) /\ parseDate(last'.arg[2])
             /\ DaysFromCivil(last'.arg[2]) < DaysFromCivil(last'.arg[1])
          \/ /\ last'.op = "del"
             /\ \A i \in 1..Len(cycles) :
                   last'.arg = <<>> \/ cycles[i].startDate # last'.arg[1] )
          => (last'.out \in {"InvalidRange", "NotFound", "Empty"}
              /\ History' = History) ]_vars

(* C11: an undo that goes through moves the top action, kind and record,   *)
(* from the undo stack to the redo stack; a redo that goes through moves   *)
(* it back; after an undo and a redo that both went through the two stacks *)
(* are as they were before the undo.                                       *)
C11_RedoInvertsUndoOnStacks ==
    [][ /\ (last'.op = "undo" /\ last'.out = "ok") =>
              /\ undoStack # <<>>
              /\ undoStack' = SubSeq(undoStack, 1, Len(undoStack) - 1)
              /\ redoStack' = Append(redoStack, undoStack[Len(undoStack)])
        /\ (last'.op = "redo" /\ last'.out = "ok") =>
              /\ redoStack # <<>>
              /\ redoStack' = SubSeq(redoStack, 1, Len(redoStack) - 1)
              /\ undoStack' = Append(undoStack, redoStack[Len(redoStack)])
        /\ (last.op = "undo" /\ last.out = "ok"
               /\ last'.op = "redo" /\ last'.out = "ok") =>
              <<undoStack', redoStack'>> = last.stacks ]_vars

\* a redo that went through right after the undo of the second of two actions
C11_Witness ==
    /\ last.op = "redo" /\ last.out = "ok"
    /\ last.after \in {"undo_add", "undo_del"}
    /\ Len(undoStack) = 2 /\ Len(last.stacks[2]) = 1

\* the rows are in ascending order of startDate, as calendar days
Chronological(t) ==
    \A i \in 1..(Len(t) - 1) :
        DaysFromCivil(t[i].startDate) <= DaysFromCivil(t[i + 1].startDate)

(* C12: whatever adds, deletes, undos and redos came before, the listing   *)
(* prints every record of the ledger once, in ascending order of           *)
(* startDate, and leaves the ledger in the physical order it had.          *)
C12_ListingSortedLedgerKept ==
    [][ last'.op = "list" =>
          /\ Content(last'.shown) = Content(cycles)
          /\ Chronological(last'.shown)
          /\ cycles' = cycles ]_vars

\* what pruning at instant now leaves of queue q: the reminders not before
\* now, each as often as q holds it
Survivors(q, now) ==
    [r \in {x \in BagToSet(q) : ~Earlier(x.when, now)} |-> q[r]]

\* C13: a listing leaves in the queue exactly the reminders that survived
\* its pruning, those beyond the twentieth line included, and a second
\* listing at the same instant prints the same sequence
C13_ListingRepeatable ==
    [][ /\ last'.op = "show" =>
              reminders' = Survivors(reminders, last'.arg[1])
        /\ (last.op = "show" /\ last'.op = "show" /\ last'.arg = last.arg) =>
              last'.shown = last.shown ]_vars

\* C14: the pruning of a listing at instant t drops every reminder before
\* t and keeps every reminder at or after t, each as often as it was queued
C14_PruneDropsExactlyPast ==
    [][ last'.op = "show" =>
          LET t == last'.arg[1]
          IN  /\ BagToSet(reminders') \subseteq BagToSet(reminders)
              /\ \A r \in BagToSet(reminders) :
                    CopiesIn(r, reminders') =
                        IF Earlier(r.when, t) THEN 0 ELSE CopiesIn(r, reminders)
              /\ \A r \in BagToSet(reminders) :
                    CopiesIn(r, last'.pruned) =
                        IF Earlier(r.when, t) THEN CopiesIn(r, reminders) ELSE 0 ]_vars

\* listed past ten on 2024-03-01: the reminders for 2020-01-01, for
\* 2024-01-01 and for that very day went, more than twenty for 2099-01-01
\* stayed
C14_Witness ==
    /\ last.op = "show" /\ last.arg = << ClockAt(<<2024, 3, 1>>, 10, 1) >>
    /\ \E r \in BagToSet(last.pruned) : timePointToString(r.when) = <<2020, 1, 1>>
    /\ \E r \in BagToSet(last.pruned) : timePointToString(r.when) = <<2024, 1, 1>>
    /\ \E r \in BagToSet(last.pruned) : timePointToString(r.when) = <<2024, 3, 1>>
    /\ \E r \in BagToSet(reminders) :
          /\ timePointToString(r.when) = <<2099, 1, 1>>
          /\ CopiesIn(r, reminders) > ShowLimit

\* C15: a reminder that a listing dropped as past is not in the queue after
\* the insert, delete, undo, redo or listing that comes next
C15_ExpiryOneWay ==
    [][ (last.op = "show" /\ last'.op \in LedgerOps \cup {"show"}) =>
          \A r \in BagToSet(last.pruned) : ~BagIn(r, reminders') ]_vars

\* C16: from an empty ledger on, the records can be put in ascending order
\* of start date so that the first has cycleLength 0 and every other has
\* the day count from the start before it to its own
C16_SpacingFollowsOrder ==
    \E t \in SortByStart(cycles) :
        \A i \in 1..Len(t) :
            t[i].cycleLength =
                IF i = 1 THEN 0
                ELSE daysBetween(t[i - 1].startDate, t[i].startDate)

PositiveSpacings(s) == {i \in 1..Len(s) : s[i].cycleLength > 0}

\* the sum over I of f[i]
RECURSIVE SumOver(_, _)
SumOver(f, I) ==
    IF I = {} THEN 0
    ELSE LET i == CHOOSE j \in I : TRUE
         IN  f[i] + SumOver(f, I \ {i})

\* the integer quotient of the sum of the positive spacings of s by their
\* count n > 0, from the quotients and remainders of the spacings by n
ExactAverage(s) ==
    LET I == PositiveSpacings(s)
        n == Cardinality(I)
    IN  SumOver([i \in I |-> s[i].cycleLength \div n], I)
           + SumOver([i \in I |-> s[i].cycleLength % n], I) \div n

\* C17: the average the prediction prints is the sum of the strictly
\* positive cycleLength values divided by their count, rounded toward zero,
\* and 28 when there is none; 28 and 30 give 29
C17_AverageOfPositiveSpacings ==
    /\ averageCycleLength(<<>>) = 28
    /\ (last.op = "predict" /\ last.out = "ok") =>
          LET I   == PositiveSpacings(cycles)
              avg == last.shown[1]
          IN  /\ I = {} => avg = 28
              /\ I # {} => avg = ExactAverage(cycles)
              /\ (Cardinality(I) = 2 /\ {cycles[i].cycleLength : i \in I} = {28, 30})
                    => avg = 29

\* every physical order of the records of ledger s
Reorderings(s) ==
    LET n == Len(s)
    IN  { [i \in 1..n |-> s[p[i]]] :
            p \in { q \in [1..n -> 1..n] : \A i, j \in 1..n : i # j => q[i] # q[j] } }

\* C18: the predicted start that menu choice 7 prints, and that the queue
\* holds after loading, is the latest start date plus the average spacing in
\* days, whatever the order in which the records are stored; latest start
\* 2024-01-01 with average 28 gives 2024-01-29
C18_PredictionFromLatestStart ==
    (last.op = "predict" /\ last.out = "ok") =>
        LET avg  == last.shown[1]
            pred == last.shown[2]
        IN  /\ parseDate(pred)
            /\ DaysFromCivil(pred) = LatestStartDay(cycles) + avg
            /\ \A t \in Reorderings(cycles) : predictNextPeriod(t) = pred
            /\ (LatestStartDay(cycles) = DaysFromCivil(<<2024, 1, 1>>) /\ avg = 28)
                  => pred = <<2024, 1, 29>>
            /\ reminders = SetToBag({ Reminder(Hours(24 * DaysFromCivil(pred)),
                                               PredictedMessage(pred)) })

\* C20: from an empty ledger on, every record of the ledger ends on or
\* after the day it starts and its durationDays is the day count from its
\* start to its end; undo and redo put records back with these fields as
\* they were
C20_DurationIsEndMinusStart ==
    /\ \A i \in 1..Len(cycles) :
          /\ DaysFromCivil(cycles[i].endDate) >= DaysFromCivil(cycles[i].startDate)
          /\ cycles[i].durationDays =
                DaysFromCivil(cycles[i].endDate) - DaysFromCivil(cycles[i].startDate)
          /\ cycles[i].durationDays >= 0
    /\ (last.op \in {"undo", "redo"} /\ last.out = "ok") =>
          \A i \in 1..Len(cycles) :
              \/ \E j \in 1..Len(last.pre) : cycles[i] = last.pre[j]
              \/ \E k \in 1..Len(last.stacks[1]) : cycles[i] = last.stacks[1][k][2]
              \/ \E k \in 1..Len(last.stacks[2]) : cycles[i] = last.stacks[2][k][2]

\* C19: a save whose stream could not be opened or stopped short leaves the
\* ledger, the stacks and the reminders as they were, reports an IoError
\* and leaves cycles.csv untouched
C19_FailedSaveSurfaces ==
    (last.op = "save" /\ last.arg[1] # "written") =>
        /\ cycles = last.pre
        /\ <<undoStack, redoStack>> = last.stacks
        /\ last.out = "IoError"
        /\ last.shown[1] = "untouched"

\* C22: an undo or redo that finds its action stale pops it and pushes it
\* nowhere, so the two stacks together hold one action less; an undo or
\* redo that goes through moves the action across and the total stays
C22_StaleConsumesAction ==
    [][ /\ (last'.op = "undo" /\ last'.out = "StaleState") =>
              /\ undoStack' = Pop(undoStack) /\ redoStack' = redoStack
              /\ Len(undoStack') + Len(redoStack')
                    = Len(undoStack) + Len(redoStack) - 1
        /\ (last'.op = "redo" /\ last'.out = "StaleState") =>
              /\ redoStack' = Pop(redoStack) /\ undoStack' = undoStack
              /\ Len(undoStack') + Len(redoStack')
                    = Len(undoStack) + Len(redoStack) - 1
        /\ (last'.op \in {"undo", "redo"} /\ last'.out = "ok") =>
              Len(undoStack') + Len(redoStack')
                    = Len(undoStack) + Len(redoStack) ]_vars

\* a redo found its action stale: the stacks hold one action less than
\* before it
C22_Witness ==
    /\ last.op = "redo" /\ last.out = "StaleState"
    /\ Len(last.stacks[2]) > 0
    /\ Len(undoStack) + Len(redoStack)
          = Len(last.stacks[1]) + Len(last.stacks[2]) - 1

\* no two records of ledger s have the same startDate and endDate
NoTwins(s) ==
    \A i, j \in 1..Len(s) :
        (s[i].startDate = s[j].startDate /\ s[i].endDate = s[j].endDate) => i = j

Unwound ==
    /\ last.op = "undo" => last.out # "StaleState"
    /\ (last.op = "undo" /\ last.out = "EmptyHistory") =>
          Content(cycles) = Content(last.run[1])
    /\ (last.op = "redo" /\ last.out = "EmptyHistory") =>
          Content(cycles) = Content(last.run[2])

\* C21: from any stored ledger, after inserts that repeat no record's dates
\* and deletes, undo until "Nothing to undo." never finds an action stale
\* and ends on the content of the stored ledger, and redo until "Nothing to
\* redo." then ends on the content the edits had reached
C21_FullUnwinding == Unwound

\* the same when the stored ledger has no two records with the same
\* startDate and endDate
C21_FullUnwindingNoTwin == NoTwins(last.run[1]) => Unwound

\* two edits on a stored record were undone to the end and redone to the end
C21_Witness ==
    /\ last.op = "redo" /\ last.out = "EmptyHistory"
    /\ Len(undoStack) = 2
    /\ last.run[1] # <<>> /\ NoTwins(last.run[1])
    /\ Content(last.run[2]) # Content(last.run[1])
    /\ Content(cycles) = Content(last.run[2])

====
